---- MODULE Spec2Model ----
(***************************************************************************)
(* Alarm aggregation and triage engine of the Metasys Alarm Viewer          *)
(* (the Alarms component).  The state is the component's React state, its   *)
(* refs and the browser's localStorage; a step is one handler, one          *)
(* continuation of fetchData after its awaited requests, or one effect.     *)
(* JavaScript runs these to completion one at a time, so each is atomic;    *)
(* a state updater passed to a setter is applied in the step that enqueues  *)
(* it.                                                                      *)
(***************************************************************************)
EXTENDS Integers, Sequences, FiniteSets, TLC

VARIABLES
  backends,          \* useState<BackendCfg[]>: sequence of [id, label, enabled]
  rows,              \* useState<Row[]>
  rowsEffectPending, \* the effect on [rows] is scheduled and has not run yet
  loading,           \* useState(false)
  backendErrors,     \* useState<Record<string,string>>: failed source id -> message
  secondsLeft,       \* useState(60)
  statuses,          \* useState<Record<string, AlarmStatus>>: in-memory status per key
  prevGroupCounts,   \* prevGroupCountsRef.current
  lsStatus,          \* localStorage alarm_status_<gk>
  lsComments,        \* localStorage alarm_comment_list_<gk>
  lsStatusLog,       \* localStorage alarm_status_log_<gk>
  activeGk,          \* useState<string|null>: key of the open annotation modal
  inflight,          \* started fetchData calls that are awaiting Promise.all
  results,           \* `results` of the last fetchData call that got past the await
  changedGks,        \* `changedGks` of the last fetchData call that got past the await
  now,               \* Date.now()
  showNoteModal,     \* useState(false): the annotation modal is shown
  unifiedHistory,    \* useState<UnifiedHistEntry[]>: history shown in the modal
  pushQueue,         \* running persistIfRelevant calls: the sources still to POST to
  timers,            \* interval ids registered with window.setInterval
  timerRef,          \* timerRef.current
  mounted,           \* the component is mounted
  fetchedCounts,     \* history: count of each key when its source last answered
  triggerValue,      \* a.triggerValue of the alarm the map callback is given
  normalized,        \* `v`, `u` and Row.value the map callback computed for it
  occurrences,       \* the rows handed to groupKey and to the lookup by key
  lookedUp           \* their keys, and what the lookup by the first key found

modalVars == <<showNoteModal, unifiedHistory, pushQueue>>
timerVars == <<timers, timerRef, mounted>>
mapVars == <<triggerValue, normalized>>
keyVars == <<occurrences, lookedUp>>

vars == <<backends, rows, rowsEffectPending, loading, backendErrors, secondsLeft,
          statuses, prevGroupCounts, lsStatus, lsComments, lsStatusLog, activeGk,
          inflight, results, changedGks, now, showNoteModal, unifiedHistory,
          pushQueue, timers, timerRef, mounted, fetchedCounts, triggerValue,
          normalized, occurrences, lookedUp>>

----------------------------------------------------------------------------
(* Bounds of the model *)

MaxOverlap == 2    \* fetchData calls awaiting at the same time
MaxItems == 2      \* alarms in one source's response
MaxLog == 2        \* entries in one localStorage log
MaxNow == 1        \* last value of the clock
MaxPushJobs == 1   \* persistIfRelevant calls running at the same time
MaxFieldLen == 2   \* characters in the site and in the point of an occurrence

(* Program constants *)

RefreshSeconds == 60

Null == "null"
NoTimer == 0       \* timerRef.current when no interval is registered
Undefined == "undefined"

AlarmStatus == {"nao_tratado", "tratado", "concluido", "oportunidade"}

(* How a request to a source can settle. *)
Outcomes == {"ok", "fail"}

(* The configured sources, as the API manager returns them. *)
SourceIds == {"1", "2"}
ApiList == << [id |-> "1", label |-> <<"A">>], [id |-> "2", label |-> <<"B">>] >>

(* Creation times (already offset-adjusted) an alarm can carry. *)
AdjTimes == {1, 2}

(* The alarms a source can return: all of one point of one site.  Source 1   *)
(* reports acknowledgements, source 2 reports discards.                      *)
AlarmDTOs ==
  [itemReference : {<<"s">>}, name : {<<"p">>}, creationTime : AdjTimes,
   isAcknowledged : BOOLEAN, isDiscarded : BOOLEAN]

PlainAlarm ==
  [itemReference |-> <<"s">>, name |-> <<"p">>, creationTime |-> 1,
   isAcknowledged |-> FALSE, isDiscarded |-> FALSE]

RECURSIVE SeqsUpTo(_, _)
SeqsUpTo(S, n) ==
  IF n = 0 THEN {<<>>}
  ELSE LET shorter == SeqsUpTo(S, n - 1)
       IN shorter \cup {Append(s, x) : s \in {t \in shorter : Len(t) = n - 1}, x \in S}

(* Response alphabets, per source id.  Rich: source 1 returns up to MaxItems *)
(* alarms, acknowledged or not; source 2 returns at most one alarm,          *)
(* discarded or not.  Plain: unflagged alarms of one creation time.          *)
RichResponses ==
  [id \in SourceIds |->
     IF id = "1"
       THEN SeqsUpTo({a \in AlarmDTOs : ~a.isDiscarded}, MaxItems)
       ELSE SeqsUpTo({a \in AlarmDTOs : ~a.isAcknowledged /\ a.creationTime = 1}, 1)]

(* Steady: every source returns the same single alarm in every cycle. *)
SteadyResponses == [id \in SourceIds |-> {<<PlainAlarm>>}]

PlainResponses ==
  [id \in SourceIds |->
     IF id = "1" THEN SeqsUpTo({PlainAlarm}, MaxItems) ELSE SeqsUpTo({PlainAlarm}, 1)]

----------------------------------------------------------------------------
(* Pure helpers *)

groupKey(o) == o.server \o <<":", ":">> \o o.site \o <<":", ":">> \o o.point

KeyOf(i) == groupKey([server |-> ApiList[i].label, site |-> <<"s">>, point |-> <<"p">>])

AllKeys == {groupKey([server |-> ApiList[i].label, site |-> <<"s">>, point |-> <<"p">>]) :
              i \in 1..Len(ApiList)}

loadStatus(gk) == IF lsStatus[gk] \in {Null, ""} THEN "nao_tratado" ELSE lsStatus[gk]
loadCommentList(gk) == lsComments[gk]
loadStatusLog(gk) == lsStatusLog[gk]

(* A Row from a source's AlarmDTO (the map callback of fetchData). *)
toRow(b, a) ==
  [server |-> b.label,
   dateTimeAdjMs |-> a.creationTime,
   site |-> a.itemReference,
   point |-> IF a.name # <<>> THEN a.name ELSE a.itemReference,
   reconhecido |-> IF a.isAcknowledged THEN "Sim" ELSE "Nao",
   descartado |-> IF a.isDiscarded THEN "Sim" ELSE "Nao"]

RECURSIVE MapRows(_, _)
MapRows(b, items) ==
  IF items = <<>> THEN <<>>
  ELSE <<toRow(b, Head(items))>> \o MapRows(b, Tail(items))

(* Mutant: the row seen last becomes the representative. *)
addToGroups_lastSeen(groups, r) ==
  LET gk == groupKey(r)
      hit == {j \in 1..Len(groups) : groups[j].gk = gk}
  IN IF hit = {}
       THEN Append(groups, [gk |-> gk, rep |-> r, items |-> <<r>>])
       ELSE LET j == CHOOSE x \in hit : TRUE
            IN [groups EXCEPT ![j] =
                  [gk |-> gk, rep |-> r, items |-> Append(groups[j].items, r)]]

(* One iteration of the loop of makeGroupsRaw. *)
addToGroups(groups, r) ==
  LET gk == groupKey(r)
      hit == {j \in 1..Len(groups) : groups[j].gk = gk}
  IN IF hit = {}
       THEN Append(groups, [gk |-> gk, rep |-> r, items |-> <<r>>])
       ELSE LET j == CHOOSE x \in hit : TRUE
                got == groups[j]
            IN [groups EXCEPT ![j] =
                  [gk |-> gk,
                   rep |-> IF r.dateTimeAdjMs > got.rep.dateTimeAdjMs THEN r ELSE got.rep,
                   items |-> Append(got.items, r)]]

RECURSIVE makeGroupsFrom(_, _)
makeGroupsFrom(groups, list) ==
  IF list = <<>> THEN groups
  ELSE makeGroupsFrom(addToGroups(groups, Head(list)), Tail(list))

makeGroupsRaw(list) == makeGroupsFrom(<<>>, list)

enabledOf(bs) == SelectSeq(bs, LAMBDA b : b.enabled)

(* The keys of a row list, and the rows of a key. *)
keysOf(list) == {groupKey(list[i]) : i \in 1..Len(list)}

(* String.prototype.trim on a text given as a sequence of characters. *)
RECURSIVE trimStart(_)
trimStart(t) == IF t # <<>> /\ Head(t) = " " THEN trimStart(Tail(t)) ELSE t
RECURSIVE trimEnd(_)
trimEnd(t) == IF t # <<>> /\ t[Len(t)] = " " THEN trimEnd(SubSeq(t, 1, Len(t) - 1)) ELSE t
trim(t) == trimEnd(trimStart(t))

DraftTexts == {<<>>, <<" ">>, <<" ", "x">>}

AutoComment == <<"Status alterado para \"Nao tratado\" (novo alarme).">>

EmptyRecord == [k \in {} |-> 0]

----------------------------------------------------------------------------
(* State after the component has mounted: the list of sources has not been   *)
(* fetched yet, the first fetchData call found no enabled source, and        *)
(* localStorage holds whatever statuses an earlier session left.             *)

InitProgram(stored) ==
  /\ backends = <<>>
  /\ rows = <<>>
  /\ rowsEffectPending = FALSE
  /\ loading = FALSE
  /\ backendErrors = EmptyRecord
  /\ secondsLeft = RefreshSeconds
  /\ statuses = [k \in AllKeys |-> Undefined]
  /\ prevGroupCounts = EmptyRecord
  /\ lsStatus \in stored
  /\ lsComments = [k \in AllKeys |-> <<>>]
  /\ lsStatusLog = [k \in AllKeys |-> <<>>]
  /\ activeGk = Null
  /\ inflight = <<>>
  /\ results = <<>>
  /\ changedGks = <<>>
  /\ now = 0
  /\ showNoteModal = FALSE
  /\ unifiedHistory = <<>>
  /\ pushQueue = <<>>
  /\ timers = {1}
  /\ timerRef = 1
  /\ mounted = TRUE
  /\ fetchedCounts = [k \in AllKeys |-> 0]

(* JavaScript values of the alarm fields that are normalized. *)
Str(text) == [type |-> "string", text |-> text]
JsUndefined == [type |-> "undefined"]
JsNull == [type |-> "null"]
JsFunction == [type |-> "function"]

(* Nothing mapped and nothing looked up yet. *)
NotMapped == [done |-> FALSE]
NotLookedUp == [keys |-> <<>>, parts |-> <<>>, row |-> 0]

(* No alarm is being mapped and no key is being looked up. *)
InitWith(stored) ==
  /\ InitProgram(stored)
  /\ triggerValue = [value |-> JsUndefined, units |-> JsUndefined]
  /\ normalized = NotMapped
  /\ occurrences = <<>>
  /\ lookedUp = NotLookedUp

----------------------------------------------------------------------------
(* A state setter called after an await: React drops the update when the     *)
(* component has been unmounted meanwhile.                                   *)
setState(new, old) == IF mounted THEN new ELSE old

(* The interval effect (deps [fetchData]).  Its cleanup clears the interval  *)
(* it registered and empties timerRef; its body registers an interval unless *)
(* timerRef holds one.  window.setInterval returns an id not in use.         *)
FreshTimerId(ts) == CHOOSE i \in 1..(Cardinality(ts) + 1) :
                       i \notin ts /\ \A j \in 1..(i - 1) : j \in ts

(* Mutant: the cleanup empties timerRef and leaves the interval registered. *)
timersAfterCleanup_keepsInterval(ts, ref) == ts

timersAfterCleanup(ts, ref) == IF ref = NoTimer THEN ts ELSE ts \ {ref}

timersAfterSetup(ts, ref) == IF ref # NoTimer THEN ts ELSE ts \cup {FreshTimerId(ts)}
timerRefAfterSetup(ts, ref) == IF ref # NoTimer THEN ref ELSE FreshTimerId(ts)

(* fetchData changed: the cleanup of the last run, then the body again. *)
timerEffectRerun ==
  /\ timers' = timersAfterSetup(timersAfterCleanup(timers, timerRef), NoTimer)
  /\ timerRef' = timerRefAfterSetup(timersAfterCleanup(timers, timerRef), NoTimer)

----------------------------------------------------------------------------
(* fetchData up to its await: the state it sets for the source list bs. *)

(* Mutant: the errors of the last cycle stay when no source is enabled. *)
errorsWhenNoneEnabled_kept(prev) == prev

(* setBackendErrors({}) of the branch for no enabled source. *)
errorsWhenNoneEnabled(prev) == EmptyRecord

fetchDataStart(bs, cap) ==
  LET enabled == enabledOf(bs)
  IN IF enabled = <<>>
       THEN /\ rows' = <<>>
            /\ rowsEffectPending' = TRUE
            /\ backendErrors' = errorsWhenNoneEnabled(backendErrors)
            /\ loading' = FALSE
            /\ inflight' = inflight
       ELSE /\ Len(inflight) < cap
            /\ loading' = TRUE
            /\ inflight' = Append(inflight,
                 [enabled |-> enabled,
                  st |-> [id \in {enabled[i].id : i \in 1..Len(enabled)} |-> "pending"]])
            /\ UNCHANGED <<rows, rowsEffectPending, backendErrors>>

secondsAfterStart(bs, s) == IF enabledOf(bs) = <<>> THEN RefreshSeconds ELSE s

(* The list of sources arrives from the API manager (mount effect); the      *)
(* change of `backends` re-creates fetchData and its effect calls it.        *)
LoadBackends(list, cap) ==
  /\ mounted
  /\ backends = <<>>
  /\ backends' = [i \in 1..Len(list) |->
                    [id |-> list[i].id, label |-> list[i].label, enabled |-> TRUE]]
  /\ fetchDataStart(backends', cap)
  /\ secondsLeft' = secondsAfterStart(backends', secondsLeft)
  /\ UNCHANGED <<statuses, prevGroupCounts, lsStatus, lsComments, lsStatusLog,
                 activeGk, results, changedGks, now>>
  /\ timerEffectRerun
  /\ UNCHANGED <<modalVars, mounted>>
  /\ UNCHANGED <<fetchedCounts, mapVars, keyVars>>

(* toggleBackend, followed by the effect that calls the new fetchData. *)
toggleBackend(id, cap) ==
  /\ mounted
  /\ \E i \in 1..Len(backends) : backends[i].id = id
  /\ backends' = [i \in 1..Len(backends) |->
                    IF backends[i].id = id
                      THEN [backends[i] EXCEPT !.enabled = ~backends[i].enabled]
                      ELSE backends[i]]
  /\ fetchDataStart(backends', cap)
  /\ secondsLeft' = secondsAfterStart(backends', secondsLeft)
  /\ UNCHANGED <<statuses, prevGroupCounts, lsStatus, lsComments, lsStatusLog,
                 activeGk, results, changedGks, now>>
  /\ timerEffectRerun
  /\ UNCHANGED <<modalVars, mounted>>
  /\ UNCHANGED <<fetchedCounts, mapVars, keyVars>>

(* The refresh button: onClick={fetchData} disabled={loading}. *)
ManualRefresh(cap) ==
  /\ mounted
  /\ ~loading
  /\ fetchDataStart(backends, cap)
  /\ secondsLeft' = secondsAfterStart(backends, secondsLeft)
  /\ UNCHANGED <<backends, statuses, prevGroupCounts, lsStatus, lsComments,
                 lsStatusLog, activeGk, results, changedGks, now>>
  /\ UNCHANGED <<modalVars, timerVars>>
  /\ UNCHANGED <<fetchedCounts, mapVars, keyVars>>

(* How often React invokes a state updater for one update: once, and twice   *)
(* under StrictMode in a development build.                                  *)
UpdaterCalls == {1, 2}

(* fetchData called `calls` times in a row for the source list bs. *)
fetchDataCalls(bs, cap, calls) ==
  LET enabled == enabledOf(bs)
      started == [enabled |-> enabled,
                  st |-> [id \in {enabled[i].id : i \in 1..Len(enabled)} |-> "pending"]]
  IN IF enabled = <<>> \/ calls = 1
       THEN fetchDataStart(bs, cap)
       ELSE /\ Len(inflight) + calls <= cap
            /\ loading' = TRUE
            /\ inflight' = inflight \o [i \in 1..calls |-> started]
            /\ UNCHANGED <<rows, rowsEffectPending, backendErrors>>

(* One tick of the one-second interval: the updater of setSecondsLeft, which *)
(* React invokes `calls` times; each invocation that finds s <= 1 calls      *)
(* fetchData.                                                                *)
TimerTick(cap, calls) ==
  /\ timers # {}
  /\ IF secondsLeft <= 1
       THEN /\ fetchDataCalls(backends, cap, calls)
            /\ secondsLeft' = RefreshSeconds
       ELSE /\ secondsLeft' = secondsLeft - 1
            /\ UNCHANGED <<rows, rowsEffectPending, backendErrors, loading, inflight>>
  /\ UNCHANGED <<backends, statuses, prevGroupCounts, lsStatus, lsComments,
                 lsStatusLog, activeGk, results, changedGks, now>>
  /\ UNCHANGED <<modalVars, timerVars>>
  /\ UNCHANGED <<fetchedCounts, mapVars, keyVars>>

(* The countdown runs out: the ticks down to and including the one that     *)
(* finds secondsLeft <= 1, taken as one step.                                *)
TimerExpiry(cap) ==
  /\ timers # {}
  /\ fetchDataStart(backends, cap)
  /\ secondsLeft' = RefreshSeconds
  /\ UNCHANGED <<backends, statuses, prevGroupCounts, lsStatus, lsComments,
                 lsStatusLog, activeGk, results, changedGks, now>>
  /\ UNCHANGED <<modalVars, timerVars>>
  /\ UNCHANGED <<fetchedCounts, mapVars, keyVars>>

(* One source's request chain (loginBase, then getAlarmsBase) settles. *)
SourceSettle(c, id, outcome) ==
  /\ c \in 1..Len(inflight)
  /\ id \in DOMAIN inflight[c].st
  /\ inflight[c].st[id] = "pending"
  /\ inflight' = [inflight EXCEPT ![c].st[id] = outcome]
  /\ UNCHANGED <<backends, rows, rowsEffectPending, loading, backendErrors,
                 secondsLeft, statuses, prevGroupCounts, lsStatus, lsComments,
                 lsStatusLog, activeGk, results, changedGks, now>>
  /\ UNCHANGED <<modalVars, timerVars>>
  /\ UNCHANGED <<fetchedCounts, mapVars, keyVars>>

(* Mutant: the rows of the sources listed after a failed one are lost. *)
RECURSIVE flatRows_stopsAtFailure(_)
flatRows_stopsAtFailure(res) ==
  IF res = <<>> THEN <<>>
  ELSE IF Head(res).ok THEN Head(res).rows \o flatRows_stopsAtFailure(Tail(res))
  ELSE <<>>

(* results.flatMap(r => r.ok ? r.rows : (errors[r.id] = r.error, [])) *)
RECURSIVE flatRows(_)
flatRows(res) ==
  IF res = <<>> THEN <<>>
  ELSE (IF Head(res).ok THEN Head(res).rows ELSE <<>>) \o flatRows(Tail(res))

errorsOf(res) ==
  [id \in {res[i].id : i \in {j \in 1..Len(res) : ~res[j].ok}} |-> "Erro desconhecido"]

(* The detector's test for one group against the previous counts. *)
prevCountOf(prevCounts, gk) == IF gk \in DOMAIN prevCounts THEN prevCounts[gk] ELSE 0

(* Mutant: the guard prevC > 0 is missing. *)
isNewOccurrence_noPrevGuard(prevCounts, g) ==
  Len(g.items) > prevCountOf(prevCounts, g.gk)

isNewOccurrence(prevCounts, g) ==
  LET prevC == prevCountOf(prevCounts, g.gk)
      currC == Len(g.items)
  IN currC > prevC /\ prevC > 0

(* The keys the loop over groups pushes to changedGks, in order. *)
RECURSIVE detectChanged(_, _)
detectChanged(prevCounts, groups) ==
  IF groups = <<>> THEN <<>>
  ELSE (IF isNewOccurrence(prevCounts, Head(groups)) THEN <<Head(groups).gk>> ELSE <<>>)
         \o detectChanged(prevCounts, Tail(groups))

seqRange(s) == {s[i] : i \in 1..Len(s)}

(* Mutant: the new list holds the new entry only. *)
appendEntry_dropsHistory(prev, e) == <<e>>

(* [...prev, e]: the list a log is saved as when an entry is added. *)
appendEntry(prev, e) == Append(prev, e)

autoStatusEntry(ts) == [ts |-> ts, status |-> "nao_tratado", reason |-> "auto_new_alarm"]
autoCommentEntry(ts) == [ts |-> ts, text |-> AutoComment]

(* Mutant: the updater does not put the flagged keys back to "nao_tratado". *)
statusesAfterFetch_noReset(prev, changed, groups, store) ==
  [k \in DOMAIN prev |->
     IF k \in {groups[i].gk : i \in 1..Len(groups)} /\ prev[k] = Undefined
       THEN (IF store[k] \in {Null, ""} THEN "nao_tratado" ELSE store[k])
     ELSE prev[k]]

(* Mutant: a key new to the record starts "nao_tratado" whatever is stored. *)
statusesAfterFetch_ignoresStore(prev, changed, groups, store) ==
  [k \in DOMAIN prev |->
     IF k \in seqRange(changed) THEN "nao_tratado"
     ELSE IF k \in {groups[i].gk : i \in 1..Len(groups)} /\ prev[k] = Undefined
       THEN "nao_tratado"
     ELSE prev[k]]

(* The updater fetchData passes to setStatuses. *)
statusesAfterFetch(prev, changed, groups, store) ==
  [k \in DOMAIN prev |->
     IF k \in seqRange(changed) THEN "nao_tratado"
     ELSE IF k \in {groups[i].gk : i \in 1..Len(groups)} /\ prev[k] = Undefined
       THEN (IF store[k] \in {Null, ""} THEN "nao_tratado" ELSE store[k])
     ELSE prev[k]]

(* Mutant: the replacement stops before the last group. *)
countsOf_partial(groups) ==
  [k \in {groups[i].gk : i \in 1..(Len(groups) - 1)} |->
     Len((CHOOSE g \in seqRange(groups) : g.gk = k).items)]

countsOf(groups) ==
  [k \in {groups[i].gk : i \in 1..Len(groups)} |->
     Len((CHOOSE g \in seqRange(groups) : g.gk = k).items)]

(* History: the count of each key in the rows of the sources that answered  *)
(* in the call cyc; the keys of the other sources keep what they had.        *)
countsFetched(prev, cyc, all) ==
  [k \in DOMAIN prev |->
     IF \E i \in 1..Len(cyc.enabled), j \in 1..Len(ApiList) :
           /\ cyc.st[cyc.enabled[i].id] = "ok"
           /\ ApiList[j].id = cyc.enabled[i].id
           /\ KeyOf(j) = k
       THEN Len(SelectSeq(all, LAMBDA r : groupKey(r) = k))
       ELSE prev[k]]

removeAt(s, c) == SubSeq(s, 1, c - 1) \o SubSeq(s, c + 1, Len(s))

(* What the sources ids can answer: one response each, from its alphabet. *)
RECURSIVE answersOf(_, _)
answersOf(ids, responses) ==
  IF ids = {} THEN {EmptyRecord}
  ELSE LET id == CHOOSE x \in ids : TRUE
           rest == answersOf(ids \ {id}, responses)
       IN {[k \in ids |-> IF k = id THEN r ELSE f[k]] : r \in responses[id], f \in rest}

(* `results`: what each enabled source's async callback returns. *)
resultsOf(cyc, resp) ==
  [i \in 1..Len(cyc.enabled) |->
     IF cyc.st[cyc.enabled[i].id] = "ok"
       THEN [ok |-> TRUE, id |-> cyc.enabled[i].id,
             rows |-> MapRows(cyc.enabled[i], resp[cyc.enabled[i].id])]
       ELSE [ok |-> FALSE, id |-> cyc.enabled[i].id, error |-> "Erro desconhecido"]]

(* Mutant: Promise.all rejects when a source fails and the call is given up. *)
allSettled_needsSuccess(st) == \A id \in DOMAIN st : st[id] = "ok"

(* Mutant: the call goes on as soon as one source's callback has returned. *)
allSettled_anyReturned(st) == \E id \in DOMAIN st : st[id] # "pending"

(* Promise.all resolves: every source's callback has returned, with its rows *)
(* or, from its catch block, with its error.                                 *)
allSettled(st) == \A id \in DOMAIN st : st[id] # "pending"

(* fetchData after its await: every source of call c has settled; resp      *)
(* gives the items of the sources that answered.                             *)
CycleComplete(c, responses) ==
  /\ c \in 1..Len(inflight)
  /\ allSettled(inflight[c].st)
  /\ \E resp \in answersOf({x \in DOMAIN inflight[c].st : inflight[c].st[x] = "ok"},
                            responses) :
     \E res \in {resultsOf(inflight[c], resp)} :
     \E all \in {flatRows(res)} :
     \E groups \in {makeGroupsRaw(all)} :
     \E changed \in {detectChanged(prevGroupCounts, groups)} :
        /\ \A k \in seqRange(changed) :
              Len(lsStatusLog[k]) < MaxLog /\ Len(lsComments[k]) < MaxLog
        /\ results' = res
        /\ backendErrors' = setState(errorsOf(res), backendErrors)
        /\ rows' = setState(all, rows)
        /\ rowsEffectPending' = setState(TRUE, rowsEffectPending)
        /\ lsStatus' = [k \in AllKeys |->
             IF k \in seqRange(changed) THEN "nao_tratado" ELSE lsStatus[k]]
        /\ lsStatusLog' = [k \in AllKeys |->
             IF k \in seqRange(changed)
               THEN appendEntry(loadStatusLog(k), autoStatusEntry(now))
               ELSE lsStatusLog[k]]
        /\ lsComments' = [k \in AllKeys |->
             IF k \in seqRange(changed)
               THEN appendEntry(loadCommentList(k), autoCommentEntry(now))
               ELSE lsComments[k]]
        /\ changedGks' = changed
        /\ statuses' = setState(statusesAfterFetch(statuses, changed, groups, lsStatus'),
                                statuses)
        /\ prevGroupCounts' = countsOf(groups)
        /\ fetchedCounts' = countsFetched(fetchedCounts, inflight[c], all)
  /\ secondsLeft' = setState(RefreshSeconds, secondsLeft)
  /\ loading' = setState(FALSE, loading)
  /\ inflight' = removeAt(inflight, c)
  /\ UNCHANGED <<backends, activeGk, now>>
  /\ UNCHANGED <<modalVars, timerVars>>
  /\ UNCHANGED <<mapVars, keyVars>>

(* The representative of each key, as the effect on [rows] computes it. *)
RECURSIVE repsFrom(_, _)
repsFrom(reps, list) ==
  IF list = <<>> THEN reps
  ELSE LET r == Head(list)
           gk == groupKey(r)
           next == IF gk \notin DOMAIN reps
                     THEN [k \in DOMAIN reps \cup {gk} |-> IF k = gk THEN r ELSE reps[k]]
                   ELSE IF r.dateTimeAdjMs > reps[gk].dateTimeAdjMs
                     THEN [reps EXCEPT ![gk] = r]
                   ELSE reps
       IN repsFrom(next, Tail(list))

repsOf(list) == repsFrom(EmptyRecord, list)

isUpstreamClosed(rep) == rep.reconhecido = "Sim" \/ rep.descartado = "Sim"

(* Mutant: the in-memory status wins over the upstream flags. *)
derivedStatus_memoryFirst(rep, inMemory, stored) ==
  IF inMemory # Undefined THEN inMemory
  ELSE IF isUpstreamClosed(rep) THEN "concluido"
  ELSE IF stored \in {Null, ""} THEN "nao_tratado" ELSE stored

(* Mutant: the status is derived from the upstream flags alone. *)
derivedStatus_flagsOnly(rep, inMemory, stored) ==
  IF isUpstreamClosed(rep) THEN "concluido" ELSE "nao_tratado"

(* `derived` of the effect on [rows], for a key with representative rep. *)
derivedStatus(rep, inMemory, stored) ==
  IF isUpstreamClosed(rep) THEN "concluido"
  ELSE IF inMemory # Undefined THEN inMemory
  ELSE IF stored \in {Null, ""} THEN "nao_tratado" ELSE stored

(* The effect on [rows]: upstream acknowledgement or discard forces          *)
(* "concluido"; every key of rows gets its derived status saved.             *)
RowsEffect ==
  /\ mounted
  /\ rowsEffectPending
  /\ rowsEffectPending' = FALSE
  /\ IF Len(rows) = 0
       THEN UNCHANGED <<statuses, lsStatus>>
       ELSE LET reps == repsOf(rows)
            IN /\ statuses' = [k \in DOMAIN statuses |->
                     IF k \in DOMAIN reps
                       THEN derivedStatus(reps[k], statuses[k], lsStatus[k])
                       ELSE statuses[k]]
               /\ lsStatus' = [k \in AllKeys |->
                     IF k \in DOMAIN reps THEN statuses'[k] ELSE lsStatus[k]]
  /\ UNCHANGED <<backends, rows, loading, backendErrors, secondsLeft, prevGroupCounts,
                 lsComments, lsStatusLog, activeGk, inflight, results, changedGks, now>>
  /\ UNCHANGED <<modalVars, timerVars>>
  /\ UNCHANGED <<fetchedCounts, mapVars, keyVars>>

(* statusToText, kept as the parts of the sentence it builds. *)
statusToText(se) ==
  <<"Status alterado para", se.status,
    IF se.reason = "auto_new_alarm" THEN "novo alarme" ELSE "usuario">>

commentHist(c) == [ts |-> c.ts, kind |-> "comment", text |-> c.text]
statusHist(se) == [ts |-> se.ts, kind |-> "status", text |-> statusToText(se)]

(* Array.prototype.sort((a, b) => a.ts - b.ts): a stable sort. *)
insertByTs(sorted, e) ==
  LET k == Cardinality({i \in 1..Len(sorted) : sorted[i].ts <= e.ts})
  IN SubSeq(sorted, 1, k) \o <<e>> \o SubSeq(sorted, k + 1, Len(sorted))

(* Mutant: the list is left in the order it was built. *)
sortByTs_asBuilt(h) == h

RECURSIVE sortByTs(_)
sortByTs(h) ==
  IF h = <<>> THEN <<>>
  ELSE insertByTs(sortByTs(SubSeq(h, 1, Len(h) - 1)), h[Len(h)])

(* The list rebuildUnified and openNoteModal compute from the two logs. *)
unifiedOf(cl, sl) ==
  sortByTs([i \in 1..Len(cl) |-> commentHist(cl[i])]
             \o [i \in 1..Len(sl) |-> statusHist(sl[i])])

(* Mutant: a history already built is shown again as it is. *)
historyOnOpen_cached(shown, cl, sl) == IF shown # <<>> THEN shown ELSE unifiedOf(cl, sl)

(* The history openNoteModal sets. *)
historyOnOpen(shown, cl, sl) == unifiedOf(cl, sl)

(* Mutant: only the status decides. *)
shouldPersist_statusOnly(status, comment) ==
  status \in {"tratado", "concluido", "oportunidade"}

shouldPersist(status, comment) ==
  trim(comment) # <<>> \/ status \in {"tratado", "concluido", "oportunidade"}

(* The sources persistIfRelevant will POST the note to, one after the other. *)
pushTargets(found, status, comment, bs) ==
  IF ~found \/ ~shouldPersist(status, comment) THEN <<>>
  ELSE [i \in 1..Len(enabledOf(bs)) |-> enabledOf(bs)[i].id]

(* persistIfRelevant, called without await: the first POST is sent at once. *)
persistIfRelevant(found, status, comment, bs) ==
  LET targets == pushTargets(found, status, comment, bs)
  IN IF targets = <<>>
       THEN pushQueue' = pushQueue
       ELSE /\ Len(pushQueue) < MaxPushJobs
            /\ pushQueue' = Append(pushQueue,
                 [targets |-> targets, status |-> status, comment |-> comment])

(* String.prototype.split("::") on a text given as a sequence of characters: *)
(* the separators are taken from left to right and do not overlap.           *)
RECURSIVE splitFrom(_, _, _)
splitFrom(parts, cur, rest) ==
  IF rest = <<>> THEN Append(parts, cur)
  ELSE IF Len(rest) >= 2 /\ rest[1] = ":" /\ rest[2] = ":"
    THEN splitFrom(Append(parts, cur), <<>>, SubSeq(rest, 3, Len(rest)))
  ELSE splitFrom(parts, Append(cur, Head(rest)), Tail(rest))

splitKey(gk) == splitFrom(<<>>, <<>>, gk)

(* const [server, site, point] = gk.split("::"): a missing part is undefined, *)
(* which equals no string.                                                   *)
hasPart(parts, i, text) == i <= Len(parts) /\ parts[i] = text

(* The positions rows.find(r => r.server === server && ...) tests true. *)
matchesOf(list, gk) ==
  {i \in 1..Len(list) :
     /\ hasPart(splitKey(gk), 1, list[i].server)
     /\ hasPart(splitKey(gk), 2, list[i].site)
     /\ hasPart(splitKey(gk), 3, list[i].point)}

(* rows.find: the position of the first row that matches, 0 for undefined. *)
findRow(list, gk) ==
  IF matchesOf(list, gk) = {} THEN 0
  ELSE CHOOSE i \in matchesOf(list, gk) : \A j \in matchesOf(list, gk) : i <= j

(* rows.find(...) for the parts of the active key finds a row. *)
rowFound(gk) == findRow(rows, gk) # 0

(* Mutant: a failed POST ends the loop over the sources. *)
targetsAfterPush_stopsOnFailure(targets, outcome) ==
  IF outcome = "fail" THEN <<>> ELSE Tail(targets)

(* The awaited POST settles; its rejection is caught and the loop goes on. *)
targetsAfterPush(targets, outcome) == Tail(targets)

(* The POST in flight of the j-th persistIfRelevant call settles. *)
PushSettle(j, outcome) ==
  /\ j \in 1..Len(pushQueue)
  /\ LET left == targetsAfterPush(pushQueue[j].targets, outcome)
     IN pushQueue' = IF left = <<>> THEN removeAt(pushQueue, j)
                     ELSE [pushQueue EXCEPT ![j].targets = left]
  /\ UNCHANGED <<backends, rows, rowsEffectPending, loading, backendErrors, secondsLeft,
                 statuses, prevGroupCounts, lsStatus, lsComments, lsStatusLog, activeGk,
                 inflight, results, changedGks, now, showNoteModal, unifiedHistory,
                 timerVars>>
  /\ UNCHANGED <<fetchedCounts, mapVars, keyVars>>

(* openNoteModal for a group of the displayed list. *)
openNoteModal(gk) ==
  /\ mounted
  /\ gk \in keysOf(rows)
  /\ activeGk' = gk
  /\ showNoteModal' = TRUE
  /\ unifiedHistory' = historyOnOpen(unifiedHistory, loadCommentList(gk), loadStatusLog(gk))
  /\ UNCHANGED <<backends, rows, rowsEffectPending, loading, backendErrors, secondsLeft,
                 statuses, prevGroupCounts, lsStatus, lsComments, lsStatusLog,
                 inflight, results, changedGks, now, pushQueue, timerVars>>
  /\ UNCHANGED <<fetchedCounts, mapVars, keyVars>>

(* The Enviar button with draftComment = draft: sendComment (which returns   *)
(* early on a blank draft), then rebuildUnified(activeGk).                   *)
sendComment(draft) ==
  /\ mounted
  /\ showNoteModal
  /\ activeGk # Null
  /\ IF trim(draft) = <<>>
       THEN UNCHANGED <<lsComments, pushQueue>>
       ELSE /\ Len(lsComments[activeGk]) < MaxLog
            /\ lsComments' = [lsComments EXCEPT
                                ![activeGk] = appendEntry(loadCommentList(activeGk),
                                                          [ts |-> now, text |-> trim(draft)])]
            /\ persistIfRelevant(rowFound(activeGk), loadStatus(activeGk), trim(draft),
                                 backends)
  /\ unifiedHistory' = unifiedOf(lsComments'[activeGk], loadStatusLog(activeGk))
  /\ UNCHANGED <<backends, rows, rowsEffectPending, loading, backendErrors, secondsLeft,
                 statuses, prevGroupCounts, lsStatus, lsStatusLog, activeGk,
                 inflight, results, changedGks, now, showNoteModal, timerVars>>
  /\ UNCHANGED <<fetchedCounts, mapVars, keyVars>>

(* Mutant: the entry is logged as an automatic one. *)
userStatusEntry_asAuto(ts, v) == [ts |-> ts, status |-> v, reason |-> "auto_new_alarm"]

userStatusEntry(ts, v) == [ts |-> ts, status |-> v, reason |-> "user"]

(* onChange of the status select of the annotation modal. *)
selectStatus(v) ==
  /\ mounted
  /\ showNoteModal
  /\ activeGk # Null
  /\ Len(lsStatusLog[activeGk]) < MaxLog
  /\ lsStatus' = [lsStatus EXCEPT ![activeGk] = v]
  /\ lsStatusLog' = [lsStatusLog EXCEPT
                       ![activeGk] = appendEntry(loadStatusLog(activeGk),
                                                 userStatusEntry(now, v))]
  /\ statuses' = [statuses EXCEPT ![activeGk] = v]
  /\ unifiedHistory' = sortByTs(Append(unifiedHistory, statusHist(userStatusEntry(now, v))))
  /\ persistIfRelevant(rowFound(activeGk), v, <<>>, backends)
  /\ UNCHANGED <<backends, rows, rowsEffectPending, loading, backendErrors, secondsLeft,
                 prevGroupCounts, lsComments, activeGk, inflight, results, changedGks, now,
                 showNoteModal, timerVars>>
  /\ UNCHANGED <<fetchedCounts, mapVars, keyVars>>

(* The Sair and close buttons of the modal. *)
closeNoteModal ==
  /\ mounted
  /\ showNoteModal
  /\ showNoteModal' = FALSE
  /\ UNCHANGED <<backends, rows, rowsEffectPending, loading, backendErrors, secondsLeft,
                 statuses, prevGroupCounts, lsStatus, lsComments, lsStatusLog, activeGk,
                 inflight, results, changedGks, now, unifiedHistory, pushQueue,
                 timerVars>>
  /\ UNCHANGED <<fetchedCounts, mapVars, keyVars>>

(* The component unmounts: the cleanup of the interval effect runs. *)
Unmount ==
  /\ mounted
  /\ mounted' = FALSE
  /\ timers' = timersAfterCleanup(timers, timerRef)
  /\ timerRef' = NoTimer
  /\ UNCHANGED <<backends, rows, rowsEffectPending, loading, backendErrors, secondsLeft,
                 statuses, prevGroupCounts, lsStatus, lsComments, lsStatusLog, activeGk,
                 inflight, results, changedGks, now, modalVars>>
  /\ UNCHANGED <<fetchedCounts, mapVars, keyVars>>

(* Time passes between two steps. *)
ClockAdvance ==
  /\ now < MaxNow
  /\ now' = now + 1
  /\ UNCHANGED <<backends, rows, rowsEffectPending, loading, backendErrors, secondsLeft,
                 statuses, prevGroupCounts, lsStatus, lsComments, lsStatusLog, activeGk,
                 inflight, results, changedGks>>
  /\ UNCHANGED <<modalVars, timerVars>>
  /\ UNCHANGED <<fetchedCounts, mapVars, keyVars>>

----------------------------------------------------------------------------
(* Triage: poll cycles over rich responses of two sources that both answer,  *)
(* with or without a user's status left in localStorage for the first        *)
(* source's key.  The cycles are sequential (one fetchData awaiting at a      *)
(* time), so the commit of a cycle has had its effects flushed before the     *)
(* next handler runs: React flushes the passive effects of a commit before it *)
(* processes the next update.                                                 *)

EffectsFlushed == ~rowsEffectPending

Init ==
  InitWith({f \in [AllKeys -> {Null, "tratado"}] : f[KeyOf(2)] = Null})

Next ==
  \/ EffectsFlushed /\ LoadBackends(ApiList, 1)
  \/ EffectsFlushed /\ ManualRefresh(1)
  \/ EffectsFlushed /\ TimerExpiry(1)
  \/ \E id \in SourceIds : EffectsFlushed /\ SourceSettle(1, id, "ok")
  \/ EffectsFlushed /\ CycleComplete(1, RichResponses)
  \/ RowsEffect

Spec == Init /\ [][Next]_vars

----------------------------------------------------------------------------
(* Annotation: one source whose point raises unflagged alarms, polled        *)
(* sequentially, and a user who opens the annotation modal of its lineage,   *)
(* comments and picks statuses.  The note POSTed to the source settles       *)
(* before the next step.                                                     *)

OneSource == SubSeq(ApiList, 1, 1)

Quiet == EffectsFlushed /\ pushQueue = <<>>

Init_user == InitWith({[k \in AllKeys |-> Null]})

Next_user ==
  \/ Quiet /\ LoadBackends(OneSource, 1)
  \/ Quiet /\ ManualRefresh(1)
  \/ \E id \in SourceIds : Quiet /\ SourceSettle(1, id, "ok")
  \/ Quiet /\ CycleComplete(1, PlainResponses)
  \/ RowsEffect
  \/ \E gk \in AllKeys : Quiet /\ openNoteModal(gk)
  \/ \E draft \in DraftTexts : Quiet /\ sendComment(draft)
  \/ \E v \in AlarmStatus : Quiet /\ selectStatus(v)
  \/ Quiet /\ closeNoteModal
  \/ \E outcome \in Outcomes : PushSettle(1, outcome)

SpecUser == Init_user /\ [][Next_user]_vars

----------------------------------------------------------------------------
(* History: the same source and lineage while time passes, with a user who   *)
(* writes one comment text and picks one status.                             *)

Init_history == InitWith({[k \in AllKeys |-> Null]})

Next_history ==
  \/ Quiet /\ LoadBackends(OneSource, 1)
  \/ Quiet /\ ManualRefresh(1)
  \/ \E id \in SourceIds : Quiet /\ SourceSettle(1, id, "ok")
  \/ Quiet /\ CycleComplete(1, PlainResponses)
  \/ RowsEffect
  \/ Quiet /\ openNoteModal(KeyOf(1))
  \/ Quiet /\ sendComment(<<" ", "x">>)
  \/ Quiet /\ selectStatus("tratado")
  \/ \E outcome \in Outcomes : PushSettle(1, outcome)
  \/ Quiet /\ ClockAdvance

SpecHistory == Init_history /\ [][Next_history]_vars

----------------------------------------------------------------------------
(* Vocabulary of the properties, stated on the row list itself. *)

(* The positions of key k in a row list, and its occurrence count. *)
PositionsOf(list, k) == {i \in 1..Len(list) : groupKey(list[i]) = k}
OccurrenceCount(list, k) == Cardinality(PositionsOf(list, k))

(* The representative occurrence of k: the first row with the latest adjusted time. *)
Representative(list, k) ==
  list[CHOOSE i \in PositionsOf(list, k) :
         \A j \in PositionsOf(list, k) :
            \/ list[j].dateTimeAdjMs < list[i].dateTimeAdjMs
            \/ list[j].dateTimeAdjMs = list[i].dateTimeAdjMs /\ i <= j]

UpstreamClosed(list, k) ==
  /\ k \in keysOf(list)
  /\ \/ Representative(list, k).reconhecido = "Sim"
     \/ Representative(list, k).descartado = "Sim"

(* The status the component shows for k when no upstream flag applies. *)
EffectiveStatus(mem, store, k) ==
  IF mem[k] # Undefined THEN mem[k]
  ELSE IF store[k] \in {Null, ""} THEN "nao_tratado" ELSE store[k]

(* This step is the continuation of a fetchData call after its await. *)
CycleCompletes == Len(inflight') < Len(inflight)

(* The count recorded for k in the Previous-Cycle Occurrence Counts. *)
RecordedCount(k) == IF k \in DOMAIN prevGroupCounts THEN prevGroupCounts[k] ELSE 0

(* k is a new occurrence for the cycle completing in this step. *)
NewOccurrenceNow(k) ==
  /\ k \in keysOf(rows')
  /\ OccurrenceCount(rows', k) > RecordedCount(k)
  /\ RecordedCount(k) > 0

(* C1: once a cycle has finished and the re-derivation of the statuses has  *)
(* run, every lineage whose representative is acknowledged or discarded is  *)
(* "concluido" in memory and in localStorage, also when the same cycle      *)
(* flagged it as a new occurrence.                                          *)
C1_UpstreamForcesCompleted ==
  ~rowsEffectPending =>
    \A k \in keysOf(rows) :
       UpstreamClosed(rows, k) => statuses[k] = "concluido" /\ lsStatus[k] = "concluido"

C1_Witness ==
  /\ ~rowsEffectPending
  /\ \E k \in seqRange(changedGks) :
        /\ UpstreamClosed(rows, k)
        /\ statuses[k] = "concluido"
        /\ lsStatus[k] = "concluido"

(* C2: a cycle in which a lineage's representative is acknowledged or       *)
(* discarded never writes "nao_tratado" for it and appends neither an       *)
(* auto_new_alarm status entry nor an automatic comment for it.             *)
C2_NoResetWhenUpstreamClosed ==
  [][CycleCompletes =>
       \A k \in AllKeys :
          UpstreamClosed(rows', k) =>
            /\ lsStatusLog'[k] = lsStatusLog[k]
            /\ lsComments'[k] = lsComments[k]
            /\ (lsStatus'[k] = "nao_tratado" => lsStatus[k] = "nao_tratado")]_vars

(* C3: a cycle that reaches detection flags exactly the lineages whose      *)
(* count c and recorded previous count p satisfy c > p and p > 0; the       *)
(* first cycle of the process flags none.                                   *)
C3_FlaggedIffCountGrew ==
  [][CycleCompletes =>
       /\ seqRange(changedGks') = {k \in AllKeys : NewOccurrenceNow(k)}
       /\ (results = <<>> => changedGks' = <<>>)]_vars

C3_Witness ==
  /\ changedGks # <<>>
  /\ \E k \in seqRange(changedGks) : OccurrenceCount(rows, k) > 1

(* C8: a cycle that flags a lineage whose representative is neither         *)
(* acknowledged nor discarded sets its status to "nao_tratado" in           *)
(* localStorage and in memory and appends exactly one auto_new_alarm status *)
(* entry and one automatic comment; the detector leaves the status and the  *)
(* logs of every lineage it does not flag as they were.                     *)
C8_ResetOnNewOccurrence ==
  [][CycleCompletes =>
       \A k \in AllKeys :
          /\ (NewOccurrenceNow(k) /\ ~UpstreamClosed(rows', k)) =>
               /\ lsStatus'[k] = "nao_tratado"
               /\ statuses'[k] = "nao_tratado"
               /\ lsStatusLog'[k] =
                    Append(lsStatusLog[k],
                           [ts |-> now, status |-> "nao_tratado", reason |-> "auto_new_alarm"])
               /\ lsComments'[k] = Append(lsComments[k], [ts |-> now, text |-> AutoComment])
          /\ ~NewOccurrenceNow(k) =>
               /\ lsStatus'[k] = lsStatus[k]
               /\ lsStatusLog'[k] = lsStatusLog[k]
               /\ lsComments'[k] = lsComments[k]
               /\ EffectiveStatus(statuses', lsStatus', k)
                    = EffectiveStatus(statuses, lsStatus, k)]_vars

C8_Witness ==
  /\ rowsEffectPending
  /\ \E k \in seqRange(changedGks) :
        /\ ~UpstreamClosed(rows, k)
        /\ lsStatus[k] = "nao_tratado"
        /\ statuses[k] = "nao_tratado"
        /\ Len(lsStatusLog[k]) = 1
        /\ Len(lsComments[k]) = 1
  /\ \E k \in keysOf(rows) : k \notin seqRange(changedGks)

(* C10: a lineage that is "concluido" in memory and in localStorage stays   *)
(* so through every step that does not flag it as a new occurrence, also    *)
(* when its representative is no longer acknowledged or discarded.          *)
C10_CompletedSurvivesUnacknowledgement ==
  [][\A k \in AllKeys :
       (/\ statuses[k] = "concluido"
        /\ lsStatus[k] = "concluido"
        /\ ~(CycleCompletes /\ k \in seqRange(changedGks')))
       => (statuses'[k] = "concluido" /\ lsStatus'[k] = "concluido")]_vars

(* The second source's key starts with no stored status, so it is           *)
(* "concluido" only by a discarded representative.                          *)
C10_Witness ==
  /\ ~rowsEffectPending
  /\ KeyOf(2) \in keysOf(rows)
  /\ ~UpstreamClosed(rows, KeyOf(2))
  /\ statuses[KeyOf(2)] = "concluido"
  /\ lsStatus[KeyOf(2)] = "concluido"

(* The lineages makeGroupsRaw yields for a list: key, count, representative. *)
LineagesOf(list) ==
  {[gk |-> g.gk, count |-> Len(g.items), rep |-> g.rep] : g \in seqRange(makeGroupsRaw(list))}

(* The lists that hold the rows of list in another order. *)
Reorderings(list) ==
  {[i \in 1..Len(list) |-> list[p[i]]] :
     p \in {f \in [1..Len(list) -> 1..Len(list)] :
              \A i, j \in 1..Len(list) : i # j => f[i] # f[j]}}

(* C19: grouping the listed rows in any order yields the same lineages: the  *)
(* same keys, each with the same count and the same representative, also     *)
(* when two rows of a key share the newest timestamp.                        *)
C19_GroupingOrderIndependent ==
  \A other \in Reorderings(rows) : LineagesOf(other) = LineagesOf(rows)

(* This step is the effect on [rows]. *)
RowsEffectRuns == rowsEffectPending /\ ~rowsEffectPending'

(* C11: a lineage of a cycle that is neither acknowledged/discarded nor      *)
(* flagged as a new occurrence keeps the status stored before the cycle      *)
(* ("nao_tratado" when nothing is stored), and a lineage with no recorded    *)
(* previous count is never flagged.                                          *)
C11_UnflaggedKeepsStoredStatus ==
  [][/\ CycleCompletes =>
          \A k \in keysOf(rows') :
             /\ RecordedCount(k) = 0 => k \notin seqRange(changedGks')
             /\ k \notin seqRange(changedGks') =>
                   /\ lsStatus'[k] = lsStatus[k]
                   /\ statuses'[k] = loadStatus(k)
     /\ RowsEffectRuns =>
          \A k \in keysOf(rows) :
             ~UpstreamClosed(rows, k) =>
                /\ statuses'[k] = loadStatus(k)
                /\ lsStatus'[k] = loadStatus(k)]_vars

(* A lineage seen for the first time shows the status a user stored for its  *)
(* key earlier, and no log entry was written for it.                         *)
C11_Witness ==
  /\ ~rowsEffectPending
  /\ \E k \in keysOf(rows) :
        /\ ~UpstreamClosed(rows, k)
        /\ statuses[k] = "tratado"
        /\ lsStatus[k] = "tratado"
        /\ lsStatusLog[k] = <<>>

----------------------------------------------------------------------------
(* Fan-out: two sources the user enables and disables, each of which can     *)
(* answer or fail (login or alarm request), polled sequentially.             *)

Init_fan == InitWith({[k \in AllKeys |-> Null]})

Next_fan ==
  \/ EffectsFlushed /\ LoadBackends(ApiList, 1)
  \/ \E id \in SourceIds : EffectsFlushed /\ toggleBackend(id, 1)
  \/ EffectsFlushed /\ ManualRefresh(1)
  \/ \E id \in SourceIds, outcome \in Outcomes :
        EffectsFlushed /\ SourceSettle(1, id, outcome)
  \/ EffectsFlushed /\ CycleComplete(1, PlainResponses)
  \/ RowsEffect

SpecFanout == Init_fan /\ [][Next_fan]_vars

----------------------------------------------------------------------------
(* Progress: the fan-out with steady alarms, where every request a source    *)
(* was sent settles at some time and the event loop runs the continuation    *)
(* of a fetchData call whose requests have all settled.                      *)

Init_live == InitWith({[k \in AllKeys |-> Null]})

Next_live ==
  \/ LoadBackends(ApiList, 1)
  \/ \E id \in SourceIds : toggleBackend(id, 1)
  \/ ManualRefresh(1)
  \/ \E id \in SourceIds, outcome \in Outcomes : SourceSettle(1, id, outcome)
  \/ CycleComplete(1, SteadyResponses)
  \/ RowsEffect

SpecLive ==
  /\ Init_live
  /\ [][Next_live]_vars
  /\ WF_vars(\E id \in SourceIds, outcome \in Outcomes : SourceSettle(1, id, outcome))
  /\ WF_vars(CycleComplete(1, SteadyResponses))

----------------------------------------------------------------------------
(* Mirror: two sources with one steady alarm each, which the user enables    *)
(* and disables, and a user who annotates the first source's lineage while   *)
(* the notes POSTed to the sources succeed, fail or stay unanswered.         *)

NotePicks == {"nao_tratado", "tratado"}

Init_mirror == InitWith({[k \in AllKeys |-> Null]})

Next_mirror ==
  \/ EffectsFlushed /\ LoadBackends(ApiList, 1)
  \/ \E id \in SourceIds : EffectsFlushed /\ toggleBackend(id, 1)
  \/ \E id \in SourceIds : EffectsFlushed /\ SourceSettle(1, id, "ok")
  \/ EffectsFlushed /\ CycleComplete(1, SteadyResponses)
  \/ RowsEffect
  \/ EffectsFlushed /\ openNoteModal(KeyOf(1))
  \/ \E draft \in DraftTexts : EffectsFlushed /\ sendComment(draft)
  \/ \E v \in NotePicks : EffectsFlushed /\ selectStatus(v)
  \/ \E j \in 1..MaxPushJobs, outcome \in Outcomes : PushSettle(j, outcome)

SpecMirror == Init_mirror /\ [][Next_mirror]_vars

----------------------------------------------------------------------------
(* Scheduling: one source, the one-second interval, the refresh button and   *)
(* the switch of the source, with up to MaxOverlap fetchData calls awaiting, *)
(* until the component unmounts.                                             *)

Init_sched == InitWith({[k \in AllKeys |-> Null]})

Next_sched ==
  \/ LoadBackends(OneSource, MaxOverlap)
  \/ \E id \in SourceIds : toggleBackend(id, MaxOverlap)
  \/ ManualRefresh(MaxOverlap)
  \/ \E calls \in UpdaterCalls : TimerTick(MaxOverlap, calls)
  \/ \E c \in 1..MaxOverlap, id \in SourceIds : SourceSettle(c, id, "ok")
  \/ \E c \in 1..MaxOverlap : CycleComplete(c, PlainResponses)
  \/ RowsEffect
  \/ Unmount

SpecSched == Init_sched /\ [][Next_sched]_vars

----------------------------------------------------------------------------
(* Overtaking: two sources with one steady alarm each, switched on and off   *)
(* while up to MaxOverlap fetchData calls await, each for the sources that   *)
(* were enabled when it started; the calls end in any order.                 *)

Init_overtake == InitWith({[k \in AllKeys |-> Null]})

Next_overtake ==
  \/ LoadBackends(ApiList, MaxOverlap)
  \/ \E id \in SourceIds : toggleBackend(id, MaxOverlap)
  \/ \E c \in 1..MaxOverlap, id \in SourceIds, outcome \in Outcomes :
        SourceSettle(c, id, outcome)
  \/ \E c \in 1..MaxOverlap : CycleComplete(c, SteadyResponses)
  \/ RowsEffect

SpecOvertake == Init_overtake /\ [][Next_overtake]_vars

----------------------------------------------------------------------------
(* Scheduling and fan-out properties *)

(* C5: at most one fetchData call is between its start and its completion,   *)
(* whatever the order of timer expiries, refresh clicks and re-fetches after *)
(* a change of the source list.                                              *)
C5_AtMostOneCycleInFlight == Len(inflight) <= 1

(* C17: while the component is mounted exactly one interval is registered,  *)
(* the one timerRef holds, also after the interval effect has run again for  *)
(* a changed source list; once it is unmounted no interval is registered     *)
(* and no fetchData call starts.                                             *)
C17_OneTimerWhileMounted ==
  /\ [](IF mounted THEN Cardinality(timers) = 1 /\ timerRef \in timers
                   ELSE timers = {} /\ timerRef = NoTimer)
  /\ [][~mounted => Len(inflight') <= Len(inflight)]_vars

(* Unmounted after the source was switched off, with a fetchData call still  *)
(* awaiting.                                                                 *)
C17_Witness ==
  /\ ~mounted
  /\ timers = {}
  /\ inflight # <<>>
  /\ backends # <<>>
  /\ enabledOf(backends) = <<>>

(* This step is a fetchData call that finds no enabled source. *)
StartsWithNoneEnabled ==
  /\ backends' # <<>>
  /\ enabledOf(backends') = <<>>
  /\ inflight' = inflight
  /\ backends' # backends \/ rows' # rows

FailedIn(cyc) == {i \in 1..Len(cyc.enabled) : cyc.st[cyc.enabled[i].id] = "fail"}
RowsOfServer(list, l) == SelectSeq(list, LAMBDA r : r.server = l)

(* C6: a completing cycle with enabled sources leaves one error per failed   *)
(* source and no other, and a row list that holds, source by source,         *)
(* exactly what each answering source returned and nothing of a failed one.  *)
C6_ErrorsAndRowsPerSource ==
  [][CycleCompletes =>
       LET cyc == inflight[1]
       IN /\ DOMAIN backendErrors' = {cyc.enabled[i].id : i \in FailedIn(cyc)}
          /\ Len(results') = Len(cyc.enabled)
          /\ \A i \in 1..Len(cyc.enabled) :
                RowsOfServer(rows', cyc.enabled[i].label) =
                  IF i \in FailedIn(cyc) THEN <<>> ELSE results'[i].rows
          /\ \A j \in 1..Len(rows') :
                \E i \in 1..Len(cyc.enabled) : rows'[j].server = cyc.enabled[i].label]_vars

(* The first of two enabled sources failed and the second one's rows are     *)
(* listed.                                                                   *)
C6_Witness ==
  /\ Len(results) = 2
  /\ ~results[1].ok
  /\ results[2].ok
  /\ DOMAIN backendErrors = {results[1].id}
  /\ rows # <<>>
  /\ rows = results[2].rows

(* C7: when a source fails in a cycle, the lineages the list held from it    *)
(* stay in the list after the cycle, and their stored statuses and logs are  *)
(* what they were.                                                           *)
C7_FailedSourceLineagesStay ==
  [][CycleCompletes =>
       LET cyc == inflight[1]
       IN \A i \in FailedIn(cyc) :
            \A k \in keysOf(RowsOfServer(rows, cyc.enabled[i].label)) :
               /\ k \in keysOf(rows')
               /\ lsStatus'[k] = lsStatus[k]
               /\ lsStatusLog'[k] = lsStatusLog[k]
               /\ lsComments'[k] = lsComments[k]]_vars

----------------------------------------------------------------------------
(* Annotation properties *)

(* This step is sendComment storing a comment for the active lineage. *)
CommentSubmitted ==
  /\ activeGk # Null
  /\ inflight' = inflight
  /\ Len(lsComments'[activeGk]) > Len(lsComments[activeGk])

(* C4: submitting a non-empty comment leaves a "concluido" lineage           *)
(* "concluido" and makes every other lineage "tratado", in memory and in     *)
(* localStorage.                                                             *)
C4_CommentPromotesStatus ==
  [][CommentSubmitted =>
       LET promoted == IF loadStatus(activeGk) = "concluido"
                         THEN "concluido" ELSE "tratado"
       IN /\ statuses'[activeGk] = promoted
          /\ lsStatus'[activeGk] = promoted]_vars

IsPrefix(a, b) == Len(a) <= Len(b) /\ SubSeq(b, 1, Len(a)) = a

(* C9: in every step (poll cycle, comment, status change) the comment log    *)
(* and the status log of every lineage key keep their previous content as a  *)
(* prefix of the new content.                                                *)
C9_LogsAppendOnly ==
  [][\A k \in AllKeys :
       /\ IsPrefix(lsComments[k], lsComments'[k])
       /\ IsPrefix(lsStatusLog[k], lsStatusLog'[k])]_vars

(* Both logs of a key hold an automatic entry and a user's entry. *)
C9_Witness ==
  \E k \in AllKeys :
     /\ Len(lsStatusLog[k]) = 2
     /\ {lsStatusLog[k][i].reason : i \in 1..2} = {"user", "auto_new_alarm"}
     /\ Len(lsComments[k]) = 2
     /\ \E i, j \in 1..2 :
           lsComments[k][i].text = AutoComment /\ lsComments[k][j].text # AutoComment

(* This step is the status select storing a status for the active lineage. *)
StatusPicked ==
  /\ activeGk # Null
  /\ inflight' = inflight
  /\ Len(lsStatusLog'[activeGk]) > Len(lsStatusLog[activeGk])

(* C12: picking a status in the annotation modal stores that status for the  *)
(* lineage key, appends one status entry with the status and reason "user"   *)
(* to the key's status log, and changes neither the key's comment log nor    *)
(* anything stored or shown for another key.                                 *)
C12_StatusPickStoresAndLogs ==
  [][StatusPicked =>
       LET k == activeGk
           v == lsStatus'[k]
       IN /\ v \in AlarmStatus
          /\ statuses'[k] = v
          /\ Len(lsStatusLog'[k]) = Len(lsStatusLog[k]) + 1
          /\ SubSeq(lsStatusLog'[k], 1, Len(lsStatusLog[k])) = lsStatusLog[k]
          /\ lsStatusLog'[k][Len(lsStatusLog'[k])].status = v
          /\ lsStatusLog'[k][Len(lsStatusLog'[k])].reason = "user"
          /\ lsComments'[k] = lsComments[k]
          /\ \A j \in AllKeys \ {k} :
                /\ lsStatus'[j] = lsStatus[j]
                /\ statuses'[j] = statuses[j]
                /\ lsStatusLog'[j] = lsStatusLog[j]
                /\ lsComments'[j] = lsComments[j]]_vars

(* A lineage picked "concluido" and then "nao_tratado", with a comment in    *)
(* its comment log.                                                          *)
C12_Witness ==
  \E k \in AllKeys :
     /\ Len(lsStatusLog[k]) = 2
     /\ lsStatusLog[k][1] = [ts |-> lsStatusLog[k][1].ts, status |-> "concluido",
                             reason |-> "user"]
     /\ lsStatusLog[k][2] = [ts |-> lsStatusLog[k][2].ts, status |-> "nao_tratado",
                             reason |-> "user"]
     /\ lsStatus[k] = "nao_tratado"
     /\ statuses[k] = "nao_tratado"
     /\ lsComments[k] # <<>>

----------------------------------------------------------------------------
(* History properties *)

(* This step sets the history from the two logs (openNoteModal or            *)
(* rebuildUnified). *)
HistoryRebuilt ==
  /\ unifiedHistory' # unifiedHistory
  /\ lsStatusLog' = lsStatusLog

(* The entries of kind k of a history, in their order. *)
OfKind(h, k) == SelectSeq(h, LAMBDA e : e.kind = k)

(* C13: the history built from a key's two logs holds one entry per comment  *)
(* and one per status entry, nothing else, in non-decreasing order of ts,    *)
(* and is fixed by the content of the two logs alone: each log's entries     *)
(* keep their order and a comment comes before a status entry of the same    *)
(* ts.                                                                       *)
C13_HistoryIsSortedMerge ==
  [][HistoryRebuilt =>
       LET h == unifiedHistory'
           cl == lsComments'[activeGk']
           sl == lsStatusLog'[activeGk']
       IN /\ Len(h) = Len(cl) + Len(sl)
          /\ OfKind(h, "comment") =
                [i \in 1..Len(cl) |-> [ts |-> cl[i].ts, kind |-> "comment",
                                        text |-> cl[i].text]]
          /\ Len(OfKind(h, "status")) = Len(sl)
          /\ \A i \in 1..Len(sl) :
                /\ OfKind(h, "status")[i].ts = sl[i].ts
                /\ OfKind(h, "status")[i].text[2] = sl[i].status
          /\ \A i, j \in 1..Len(h) :
                i < j => /\ h[i].ts <= h[j].ts
                         /\ (h[i].ts = h[j].ts /\ h[j].kind = "comment"
                               => h[i].kind = "comment")]_vars

(* The history shown has a status entry ahead of a later comment and an      *)
(* automatic comment next to the automatic status entry of the same ts.      *)
C13_Witness ==
  /\ activeGk # Null
  /\ Len(unifiedHistory) >= 3
  /\ unifiedHistory = unifiedOf(lsComments[activeGk], lsStatusLog[activeGk])
  /\ \E i, j \in 1..Len(unifiedHistory) :
        /\ i < j
        /\ unifiedHistory[i].kind = "status"
        /\ unifiedHistory[j].kind = "comment"
        /\ unifiedHistory[i].ts < unifiedHistory[j].ts
  /\ \E i, j \in 1..Len(unifiedHistory) :
        /\ unifiedHistory[i].kind = "comment"
        /\ unifiedHistory[j].kind = "status"
        /\ unifiedHistory[i].ts = unifiedHistory[j].ts

(* The entries of a history that are the comment c or the status entry se. *)
ShownComment(h, c) ==
  \E i \in 1..Len(h) : h[i].kind = "comment" /\ h[i].ts = c.ts /\ h[i].text = c.text
ShownStatus(h, se) ==
  \E i \in 1..Len(h) :
     h[i].kind = "status" /\ h[i].ts = se.ts /\ h[i].text = statusToText(se)

(* C14: whenever the modal of a lineage opens, the history it shows has      *)
(* every entry the key's comment log and status log hold at that moment,     *)
(* those appended by poll cycles since the last opening included, and no     *)
(* more entries than the logs hold.                                          *)
C14_OpeningShowsCurrentLogs ==
  [][(~showNoteModal /\ showNoteModal') =>
       LET cl == lsComments'[activeGk']
           sl == lsStatusLog'[activeGk']
       IN /\ \A i \in 1..Len(cl) : ShownComment(unifiedHistory', cl[i])
          /\ \A i \in 1..Len(sl) : ShownStatus(unifiedHistory', sl[i])
          /\ Len(unifiedHistory') = Len(cl) + Len(sl)]_vars

(* The modal is open again after a poll cycle reset the lineage while it was *)
(* closed: the history shows the user's comment of the first opening and the *)
(* automatic entries.                                                        *)
C14_Witness ==
  /\ showNoteModal
  /\ activeGk # Null
  /\ Len(unifiedHistory) = 3
  /\ unifiedHistory = unifiedOf(lsComments[activeGk], lsStatusLog[activeGk])
  /\ unifiedHistory[1].kind = "comment"
  /\ unifiedHistory[1].text # AutoComment
  /\ unifiedHistory[2].text = AutoComment
  /\ unifiedHistory[3].kind = "status"
  /\ unifiedHistory[3].text[3] = "novo alarme"

----------------------------------------------------------------------------
(* Mirror properties *)

(* The ids of the enabled sources. *)
EnabledIds == {backends[i].id : i \in {j \in 1..Len(backends) : backends[j].enabled}}

(* The status stored for the active lineage after the step. *)
ResultingStatus ==
  IF lsStatus'[activeGk] \in {Null, ""} THEN "nao_tratado" ELSE lsStatus'[activeGk]

PushSettles ==
  /\ pushQueue' # pushQueue
  /\ lsComments' = lsComments
  /\ lsStatusLog' = lsStatusLog

(* C16: the settling of a note POST, successful or not, changes no stored    *)
(* status, log or in-memory status and lets the call go on with its next     *)
(* source; a comment and a status pick write what they write whether or not  *)
(* earlier POSTs are still unanswered.                                       *)
C16_PushesLeaveLocalStateAlone ==
  [][/\ PushSettles =>
          /\ UNCHANGED <<lsStatus, statuses, lsComments, lsStatusLog>>
          /\ \E j \in 1..Len(pushQueue) :
                pushQueue' = IF Len(pushQueue[j].targets) = 1
                               THEN removeAt(pushQueue, j)
                               ELSE [pushQueue EXCEPT ![j].targets = Tail(@)]
     /\ CommentSubmitted =>
          /\ UNCHANGED <<lsStatus, statuses, lsStatusLog>>
          /\ Len(lsComments'[activeGk]) = Len(lsComments[activeGk]) + 1
     /\ StatusPicked =>
          /\ lsComments' = lsComments
          /\ Len(lsStatusLog'[activeGk]) = Len(lsStatusLog[activeGk]) + 1
          /\ statuses'[activeGk] = lsStatus'[activeGk]]_vars

(* The note of a pick of "tratado" has reached the first source and waits    *)
(* for the second one while the user has already picked "nao_tratado".       *)
C16_Witness ==
  /\ activeGk # Null
  /\ pushQueue # <<>>
  /\ pushQueue[1].status = "tratado"
  /\ pushQueue[1].targets = <<"2">>
  /\ lsStatus[activeGk] = "nao_tratado"
  /\ statuses[activeGk] = "nao_tratado"
  /\ Len(lsStatusLog[activeGk]) = 2

----------------------------------------------------------------------------
(* Properties of overlapping fetchData calls *)

(* The count of every key of a row list. *)
CountsIn(list) == [k \in keysOf(list) |-> OccurrenceCount(list, k)]

(* C21: with fetchData calls overlapping, the previous counts are at every   *)
(* moment the whole counts of the call that last got past its await, and a   *)
(* call past its await flags against that whole map and replaces it by its   *)
(* own counts in the same step.                                              *)
C21_CountsReplacedInOneStep ==
  /\ [](prevGroupCounts = CountsIn(flatRows(results)))
  /\ [][CycleCompletes =>
         /\ seqRange(changedGks') =
               {k \in keysOf(flatRows(results')) :
                  /\ OccurrenceCount(flatRows(results'), k) > RecordedCount(k)
                  /\ RecordedCount(k) > 0}
         /\ prevGroupCounts' = CountsIn(flatRows(results'))]_vars

(* One of two overlapping calls has ended and flagged a lineage against the  *)
(* counts an earlier call left; the other is still awaiting.                 *)
C21_Witness ==
  /\ mounted
  /\ ~loading
  /\ enabledOf(backends) # <<>>
  /\ Len(inflight) = 1
  /\ changedGks # <<>>
  /\ prevGroupCounts # EmptyRecord

(* This step writes what a fetchData call writes after its await. *)
CycleWrites ==
  \/ results' # results
  \/ changedGks' # changedGks
  \/ prevGroupCounts' # prevGroupCounts
  \/ lsStatusLog' # lsStatusLog
  \/ rows' # rows /\ rows' # <<>>
  \/ DOMAIN backendErrors' # {} /\ backendErrors' # backendErrors

(* This step is the settling of one source's request chain. *)
RequestSettles == inflight' # inflight /\ Len(inflight') = Len(inflight)

(* C22: the row list, the errors, the flags, the logs and the previous       *)
(* counts are written by a fetchData call only in the step in which it ends, *)
(* and it ends only when every enabled source's request chain has settled,   *)
(* with success or failure; the settling of one request writes none of them. *)
C22_WritesAfterAllSettled ==
  [][/\ (CycleWrites \/ CycleCompletes) =>
          \E c \in 1..Len(inflight) :
             /\ inflight' = removeAt(inflight, c)
             /\ \A id \in DOMAIN inflight[c].st : inflight[c].st[id] \in Outcomes
     /\ RequestSettles =>
          UNCHANGED <<rows, backendErrors, results, changedGks, prevGroupCounts,
                      statuses, lsStatus, lsStatusLog, lsComments>>]_vars

(* A call of two sources has ended after the first answered and the second   *)
(* failed.                                                                   *)
C22_Witness ==
  /\ inflight = <<>>
  /\ Len(results) = 2
  /\ results[1].ok
  /\ ~results[2].ok
  /\ rows = results[1].rows
  /\ rows # <<>>
  /\ DOMAIN backendErrors = {results[2].id}

(* C23: after every fetchData call that has ended, also one that found no    *)
(* enabled source and one whose sources failed, the previous counts map      *)
(* each listed lineage key to its count and hold no other key.               *)
C23_CountsAreLastCyclesCounts == prevGroupCounts = CountsIn(rows)

----------------------------------------------------------------------------
(* Grouping properties *)

(* Row r is one of the rows of key k with the latest adjusted time. *)
IsLatestOf(list, k, r) ==
  /\ \E i \in PositionsOf(list, k) : list[i] = r
  /\ \A i \in PositionsOf(list, k) : list[i].dateTimeAdjMs <= r.dateTimeAdjMs

(* C24: the groups of the row list partition it: there is one group per key  *)
(* of the list, each row is an item of the group of its key and of no other, *)
(* a group's items are the rows of its key, and its representative, in       *)
(* makeGroupsRaw and in the effect on the rows, is a row of the group with   *)
(* the latest adjusted time.                                                 *)
C24_GroupsPartitionRows ==
  LET groups == makeGroupsRaw(rows)
  IN /\ \A i, j \in 1..Len(groups) : groups[i].gk = groups[j].gk => i = j
     /\ {groups[i].gk : i \in 1..Len(groups)} = keysOf(rows)
     /\ \A i \in 1..Len(groups) :
           /\ groups[i].items = SelectSeq(rows, LAMBDA r : groupKey(r) = groups[i].gk)
           /\ Len(groups[i].items) = OccurrenceCount(rows, groups[i].gk)
           /\ IsLatestOf(rows, groups[i].gk, groups[i].rep)
     /\ DOMAIN repsOf(rows) = keysOf(rows)
     /\ \A k \in keysOf(rows) : IsLatestOf(rows, k, repsOf(rows)[k])

(* Two lineages are listed; one has two occurrences, the newer of which      *)
(* comes first in the list.                                                  *)
C24_Witness ==
  /\ Cardinality(keysOf(rows)) = 2
  /\ \E k \in keysOf(rows) :
        /\ OccurrenceCount(rows, k) = 2
        /\ \E i, j \in PositionsOf(rows, k) :
              i < j /\ rows[i].dateTimeAdjMs > rows[j].dateTimeAdjMs

----------------------------------------------------------------------------
(* Ordering of overlapping fetchData calls *)

(* The labels and the ids of the sources that are enabled now. *)
EnabledLabels == {backends[i].label : i \in {j \in 1..Len(backends) : backends[j].enabled}}

(* C27: once every started fetchData call has ended, the row list and the    *)
(* error map are those of the call started last, which was started for the   *)
(* sources enabled now: every row comes from an enabled source, every error  *)
(* belongs to an enabled source, and every enabled source has rows or an     *)
(* error.                                                                    *)
C27_LastStartedCycleWins ==
  (inflight = <<>> /\ enabledOf(backends) # <<>>) =>
     /\ \A i \in 1..Len(rows) : rows[i].server \in EnabledLabels
     /\ DOMAIN backendErrors \subseteq EnabledIds
     /\ \A i \in 1..Len(backends) :
           backends[i].enabled =>
              \/ backends[i].id \in DOMAIN backendErrors
              \/ \E j \in 1..Len(rows) : rows[j].server = backends[i].label

(* C28: while the component is mounted, loading is on exactly when some      *)
(* fetchData call has started and not ended.                                 *)
C28_LoadingIffCycleInFlight ==
  mounted => (loading <=> inflight # <<>>)

----------------------------------------------------------------------------
(* Detection across an outage *)

(* The source a key's lineage comes from, and whether a call's results hold  *)
(* an answer of it.                                                          *)
SourceOfKey(k) == ApiList[CHOOSE j \in 1..Len(ApiList) : KeyOf(j) = k].id
AnsweredIn(res, k) == \E i \in 1..Len(res) : res[i].id = SourceOfKey(k) /\ res[i].ok

(* C29: when the last cycle that ended did not fetch a lineage's source      *)
(* (the source failed or was disabled) and the source now answers with more  *)
(* occurrences of the lineage than it had when the source last answered, at  *)
(* least one then, the cycle sets the lineage's stored status to             *)
(* "nao_tratado" and appends the automatic status entry and comment.         *)
C29_RepeatFiringAcrossOutage ==
  [][CycleCompletes =>
       \A k \in AllKeys :
          (/\ results # <<>>
           /\ ~AnsweredIn(results, k)
           /\ AnsweredIn(results', k)
           /\ fetchedCounts[k] > 0
           /\ OccurrenceCount(rows', k) > fetchedCounts[k]
           /\ ~UpstreamClosed(rows', k))
          => /\ lsStatus'[k] = "nao_tratado"
             /\ lsStatusLog'[k] = Append(lsStatusLog[k], autoStatusEntry(now))
             /\ lsComments'[k] = Append(lsComments[k], autoCommentEntry(now))]_vars

----------------------------------------------------------------------------
(* Countdown properties *)

(* This step is the tick that finds the countdown run out while a source is  *)
(* enabled.                                                                  *)
ExpiryTick ==
  /\ secondsLeft <= 1
  /\ secondsLeft' = RefreshSeconds
  /\ backends' = backends
  /\ enabledOf(backends) # <<>>
  /\ Len(inflight') > Len(inflight)

(* C30: the tick that finds the countdown at 1 or less starts exactly one    *)
(* fetchData call, however often the updater is invoked for it, and the      *)
(* countdown is always within 1..60.                                         *)
C30_ExpiryStartsOneCycle ==
  /\ [](secondsLeft \in 1..RefreshSeconds)
  /\ [][ExpiryTick => Len(inflight') = Len(inflight) + 1]_vars

----------------------------------------------------------------------------
(* Lineage keys: groupKey and the lookup of a key's row, for two occurrences *)
(* whose labels differ at most in case and whose site and point are texts of *)
(* letters and colons.                                                       *)

FieldChars == {"s", ":"}
FieldTexts == SeqsUpTo(FieldChars, MaxFieldLen) \ {<<>>}
KeyLabels == {<<"A">>, <<"a">>}
Occurrences == [server : KeyLabels, site : FieldTexts, point : FieldTexts]

Init_keys ==
  /\ InitProgram({[k \in AllKeys |-> Null]})
  /\ triggerValue = [value |-> JsUndefined, units |-> JsUndefined]
  /\ normalized = NotMapped
  /\ occurrences \in {<<r1, r2>> : r1 \in Occurrences, r2 \in Occurrences}
  /\ lookedUp = NotLookedUp

(* The keys of the occurrences, and the lookup sendComment and the status    *)
(* select make for the first one's key in the list of the two.               *)
LookupByKey ==
  /\ occurrences # <<>>
  /\ lookedUp = NotLookedUp
  /\ lookedUp' =
       [keys |-> [i \in 1..Len(occurrences) |-> groupKey(occurrences[i])],
        parts |-> splitKey(groupKey(occurrences[1])),
        row |-> findRow(occurrences, groupKey(occurrences[1]))]
  /\ UNCHANGED <<backends, rows, rowsEffectPending, loading, backendErrors, secondsLeft,
                 statuses, prevGroupCounts, lsStatus, lsComments, lsStatusLog, activeGk,
                 inflight, results, changedGks, now, modalVars, timerVars,
                 fetchedCounts, mapVars, occurrences>>

Next_keys == LookupByKey

SpecKeys == Init_keys /\ [][Next_keys]_vars

(* The triple a key is built from. *)
TripleOf(r) == <<r.server, r.site, r.point>>

(* C26: two occurrences have the same key exactly when their label, site and *)
(* point are equal, also when a site or point holds colons, and the parts a  *)
(* key is split into for the lookup are the label, site and point it was     *)
(* built from, so that the lookup finds an occurrence of that triple.        *)
C26_KeyIdentifiesTriple ==
  lookedUp # NotLookedUp =>
     /\ (lookedUp.keys[1] = lookedUp.keys[2])
           <=> (TripleOf(occurrences[1]) = TripleOf(occurrences[2]))
     /\ lookedUp.parts = TripleOf(occurrences[1])
     /\ lookedUp.row # 0
     /\ TripleOf(occurrences[lookedUp.row]) = TripleOf(occurrences[1])

----------------------------------------------------------------------------
(* Value and unit normalization (lib/api.ts).  A text is a sequence of       *)
(* tokens: a blank, a dot, or a run of other characters.  A JavaScript value *)
(* is a record: a string with its text, undefined, null, or a function (a    *)
(* member every object literal inherits from Object.prototype); these are    *)
(* Str, JsUndefined, JsNull and JsFunction.                                  *)

Enum(set, member) == <<set, ".", member>>

(* The names an object literal answers to without holding them as keys. *)
InheritedNames == {<<"constructor">>}

(* table[key] on an object literal. *)
lookup(table, key) ==
  IF key \in DOMAIN table THEN Str(table[key])
  ELSE IF key \in InheritedNames THEN JsFunction
  ELSE JsUndefined

(* JavaScript truthiness of such a value. *)
truthy(x) == x.type = "function" \/ (x.type = "string" /\ x.text # <<>>)

(* `direct` of normalizeValue. *)
direct ==
  Enum("controllerStatusEnumSet", "csOffline") :> <<"Offline">> @@
  Enum("controllerStatusEnumSet", "csOnline") :> <<"Online">> @@
  Enum("batteryConditionEnumSet", "bcBatteryService") :> <<"BatteryService">> @@
  Enum("normalAlarmEnumSet", "naAlarm") :> <<"Alarm">> @@
  Enum("localremoteEnumSet", "1") :> <<"LR - 1">> @@
  Enum("localremoteEnumSet", "0") :> <<"LR - 0">> @@
  Enum("offAutoEnumSet", "0") :> <<"Estado - 0">> @@
  Enum("offAutoEnumSet", "1") :> <<"Estado - 1">> @@
  Enum("unitEnumSet", "noUnits") :> <<>> @@
  Enum("normalAlarm2EnumSet", "na2Alarm") :> <<"Alarm">> @@
  Enum("normalAlarm2EnumSet", "na2Normal") :> <<"Normal">> @@
  Enum("unitEnumSet", "kilopascals") :> <<"kPa">> @@
  Enum("unitEnumSet", "kilowatts") :> <<"kW">> @@
  Enum("unitEnumSet", "jaKilogramsPerSqCm") :> <<"kg/m2">> @@
  Enum("unitEnumSet", "millimetersPerSecond") :> <<"mm/s.">>

(* `map` of mapUnit. *)
map ==
  Enum("unitEnumSet", "noUnits") :> <<>> @@
  Enum("unitEnumSet", "degC") :> <<"degC">> @@
  Enum("unitEnumSet", "percent") :> <<"%">> @@
  Enum("unitEnumSet", "milligrams") :> <<"mg">> @@
  Enum("unitEnumSet", "perMinute") :> <<"perMinute">> @@
  Enum("unitEnumSet", "degF") :> <<"degF">> @@
  <<"percent">> :> <<"%">> @@
  <<"milligrams">> :> <<"milligrams">> @@
  <<"perMinute">> :> <<"perMinute">> @@
  Enum("localremoteEnumSet", "0") :> <<"LR - 0">> @@
  Enum("localremoteEnumSet", "1") :> <<"LR - 1">> @@
  Enum("normalAlarm2EnumSet", "na2Alarm") :> <<"Alarm">> @@
  Enum("normalAlarm2EnumSet", "na2Normal") :> <<"Normal">> @@
  Enum("unitEnumSet", "kilopascals") :> <<"kPa">> @@
  Enum("unitEnumSet", "kilowatts") :> <<"kW">> @@
  Enum("unitEnumSet", "jaKilogramsPerSqCm") :> <<"kg/m2">> @@
  Enum("unitEnumSet", "millimetersPerSecond") :> <<"mm/s.">>

(* s.split(".")[1]: the tokens between the first dot and the next one;       *)
(* undefined when s holds no dot.                                            *)
RECURSIVE upToDot(_)
upToDot(t) == IF t = <<>> \/ Head(t) = "." THEN <<>> ELSE <<Head(t)>> \o upToDot(Tail(t))

RECURSIVE afterFirstDot(_)
afterFirstDot(t) ==
  IF t = <<>> THEN JsUndefined
  ELSE IF Head(t) = "." THEN Str(upToDot(Tail(t)))
  ELSE afterFirstDot(Tail(t))

startsWith(t, prefix) == Len(t) >= Len(prefix) /\ SubSeq(t, 1, Len(prefix)) = prefix

normalizeValue(v) ==
  IF v.type \in {"null", "undefined"} THEN Str(<<"-">>)
  ELSE LET s == trim(v.text)
       IN IF truthy(lookup(direct, s)) THEN lookup(direct, s)
          ELSE IF startsWith(s, <<"offonEnumSet", ".">>)
                    /\ afterFirstDot(s) = Str(<<"0">>) THEN Str(<<"Estado 0">>)
          ELSE IF startsWith(s, <<"offonEnumSet", ".">>)
                    /\ afterFirstDot(s) = Str(<<"1">>) THEN Str(<<"Estado 1">>)
          ELSE Str(s)

(* map[u] ?? u, after the test !u. *)
mapUnit(u) ==
  IF ~truthy(u) THEN JsUndefined
  ELSE IF lookup(map, u.text).type = "undefined" THEN u
  ELSE lookup(map, u.text)

(* Row.value: u ? `${v} ${u}` : v *)
rowValue(v, u) ==
  IF ~truthy(u) THEN v
  ELSE IF v.type = "string" /\ u.type = "string" THEN Str(v.text \o <<" ">> \o u.text)
  ELSE JsFunction

(* The raw values and units a source's alarm can carry. *)
RawValues ==
  {Str(k) : k \in DOMAIN direct}
    \cup {Str(<<" ">> \o k \o <<" ">>) : k \in {Enum("unitEnumSet", "kilowatts")}}
    \cup {Str(Enum("offonEnumSet", c)) : c \in {"0", "1", "2"}}
    \cup {Str(<<"42">>), Str(<<"21", ".", "5">>), Str(<<>>), Str(<<"constructor">>),
          JsUndefined, JsNull}

RawUnits ==
  {Str(k) : k \in DOMAIN map}
    \cup {Str(<<"ppm">>), Str(<<" ", "percent">>), Str(<<>>), Str(<<"constructor">>),
          JsUndefined}

Init_normalize ==
  /\ InitProgram({[k \in AllKeys |-> Null]})
  /\ triggerValue \in [value : RawValues, units : RawUnits]
  /\ normalized = NotMapped
  /\ occurrences = <<>>
  /\ lookedUp = NotLookedUp

(* The map callback of fetchData computes v, u and the row's value for an    *)
(* alarm's triggerValue.                                                     *)
MapTriggerValue ==
  /\ ~normalized.done
  /\ normalized' =
       [done |-> TRUE,
        v |-> normalizeValue(triggerValue.value),
        u |-> mapUnit(triggerValue.units),
        value |-> rowValue(normalizeValue(triggerValue.value),
                           mapUnit(triggerValue.units))]
  /\ UNCHANGED <<backends, rows, rowsEffectPending, loading, backendErrors, secondsLeft,
                 statuses, prevGroupCounts, lsStatus, lsComments, lsStatusLog, activeGk,
                 inflight, results, changedGks, now, modalVars, timerVars,
                 fetchedCounts, triggerValue, keyVars>>

Next_normalize == MapTriggerValue

SpecNormalize == Init_normalize /\ [][Next_normalize]_vars

(* A raw string as a source sends it: not empty, no blanks around it, and    *)
(* not the name of an inherited member.                                      *)
CleanText(raw) ==
  /\ raw.type = "string"
  /\ raw.text # <<>>
  /\ trim(raw.text) = raw.text
  /\ raw.text \notin InheritedNames

(* What a lookup with pass-through gives for a raw string. *)
Translated(table, raw) ==
  IF raw.text \in DOMAIN table THEN Str(table[raw.text]) ELSE raw

(* The fixed table of the values: `direct` and the two off/on states. *)
ValueTable ==
  direct @@ Enum("offonEnumSet", "0") :> <<"Estado 0">>
         @@ Enum("offonEnumSet", "1") :> <<"Estado 1">>

(* C25: for a raw value and a raw unit as a source sends them, the           *)
(* normalized value and unit are the display strings their tables assign to  *)
(* them, the empty display string included, and the raw string itself when   *)
(* the table holds no such key.                                              *)
C25_NormalizationIsLookup ==
  normalized.done =>
     /\ CleanText(triggerValue.value) =>
           normalized.v = Translated(ValueTable, triggerValue.value)
     /\ CleanText(triggerValue.units) =>
           normalized.u = Translated(map, triggerValue.units)

====
